---- MODULE Spec2Model ----
(***************************************************************************)
(* Model of the ipfsStore route (api/src/routes/ipfsStore.ts): concurrent  *)
(* invocations of the async function ipfsStore against one content store,  *)
(* one state table, one ledger node and the two record caches.             *)
(*                                                                         *)
(* Every await of the function is a suspension point; the synchronous code *)
(* between two awaits is one atomic action.  An external call takes effect *)
(* (or fails) at the step that resumes the caller.                         *)
(***************************************************************************)
EXTENDS Integers, Sequences, FiniteSets, TLC

\* ---------------------------------------------------------------- bounds
\* Calls of the specification Spec: call 1 is given any request, the others
\* a well-formed one.
NumCalls == 2
\* Calls of the specification SpecRace, all given a well-formed request.
NumRaceCalls == 3
\* The transactions the payload of the long description takes.
MaxTxs == 2

Max(a, b) == IF a >= b THEN a ELSE b
Calls == 1 .. NumCalls
RaceCalls == 1 .. NumRaceCalls
AllCalls == 1 .. Max(NumCalls, NumRaceCalls)

\* ------------------------------------------------------------ the values
Null == [null |-> TRUE]

\* const maxSize = 0.5 * 1048576;
maxSize == 524288

\* request.data is a base64 text; the model's texts are n characters "A"
\* (each six zero bits), written as the number n.
\* Buffer.from(data, "base64").length: three bytes for every four characters,
\* and a trailing group of 2 or 3 characters gives 1 or 2 bytes (a single
\* trailing character gives none).
BufferFrom(data) ==
    [length |-> 3 * (data \div 4)
                + (CASE data % 4 = 2 -> 1 [] data % 4 = 3 -> 2 [] OTHER -> 0)]

\* The shortest base64 text that decodes to `bytes` bytes.
Base64Chars(bytes) ==
    4 * (bytes \div 3)
    + (CASE bytes % 3 = 1 -> 2 [] bytes % 3 = 2 -> 3 [] OTHER -> 0)

HexDigit == <<"0", "1", "2", "3", "4", "5", "6", "7",
              "8", "9", "a", "b", "c", "d", "e", "f">>

\* digest("hex") of one byte value: two lower-case hexadecimal digits.
ToHex(v) == <<HexDigit[(v \div 16) + 1], HexDigit[(v % 16) + 1]>>

\* crypto.createHash("sha256") and new SHA3(256), each cut down to a one-byte
\* digest of the buffer; two different functions of the bytes.
Sha256Digest(buffer) == ToHex((buffer.length * 37 + 171) % 256)
Sha3Digest(buffer) == ToHex((buffer.length * 101 + 62) % 256)

\* Any other algorithm falls back to sha256: hex is never undefined.
ComputeHexDefault(algorithm, buffer) ==
    IF algorithm = "sha3"
      THEN [defined |-> TRUE, value |-> Sha3Digest(buffer)]
      ELSE [defined |-> TRUE, value |-> Sha256Digest(buffer)]

\* let hex; if sha256 ... else if sha3 ...: hex stays undefined otherwise.
ComputeHex(algorithm, buffer) ==
    IF algorithm = "sha256"
      THEN [defined |-> TRUE, value |-> Sha256Digest(buffer)]
    ELSE IF algorithm = "sha3"
      THEN [defined |-> TRUE, value |-> Sha3Digest(buffer)]
    ELSE [defined |-> FALSE, value |-> <<>>]

\* The comparison made only when a hash was computed: if (hex && hex !== hash).
HashDiffersWhenDefined(hex, hash) == hex.defined /\ hex.value # hash

\* if (hex !== request.hash)
HashDiffers(hex, hash) == (~hex.defined) \/ hex.value # hash

\* The limit taken as the last size allowed: if (buffer.length > maxSize).
TooLargeStrict(buffer) == buffer.length > maxSize

\* if (buffer.length >= maxSize)
TooLarge(buffer) == buffer.length >= maxSize

\* if (buffer.length === 0)
IsEmpty(buffer) == buffer.length = 0

\* ValidationHelper.string(value, name): the field is present and not blank.
ValidationHelperString(value) == value # ""

\* ValidationHelper.number(value, name): the field is a number.
ValidationHelperNumber(value) == value \in Int

\* The seven field validations that open ipfsStore.
FieldsValid(req) ==
    /\ ValidationHelperString(req.name)
    /\ ValidationHelperString(req.description)
    /\ ValidationHelperNumber(req.size)
    /\ ValidationHelperString(req.modified)
    /\ ValidationHelperString(req.algorithm)
    /\ req.hash # <<>>
    /\ req.data > 0

\* /(https?):\/\/(.*):(\d*)(.*)/.exec(config.ipfs.provider): the match and its
\* four groups, or null.
RegexExec(provider) ==
    CASE provider = "https://ipfs.mydomain.com:443/api/v0/" ->
           <<provider, "https", "ipfs.mydomain.com", "443", "/api/v0/">>
      [] provider = "http://localhost:5001" ->
           <<provider, "http", "localhost", "5001", "">>
      [] OTHER -> Null

Providers == {"https://ipfs.mydomain.com:443/api/v0/", "ipfs.mydomain.com"}

\* The content id the content store gives a buffer.
Cid(buffer) == <<"Qm", buffer.length>>

\* ipfs.add(buffer): the stream of added files, one for one buffer.
IpfsAdd(buffer) == << [path |-> Cid(buffer)] >>

\* ------------------------------------------------------------- requests
ToUpperChar(ch) ==
    CASE ch = "a" -> "A" [] ch = "b" -> "B" [] ch = "c" -> "C"
      [] ch = "d" -> "D" [] ch = "e" -> "E" [] ch = "f" -> "F"
      [] OTHER -> ch

ToLowerChar(ch) ==
    CASE ch = "A" -> "a" [] ch = "B" -> "b" [] ch = "C" -> "c"
      [] ch = "D" -> "d" [] ch = "E" -> "e" [] ch = "F" -> "f"
      [] OTHER -> ch

ToUpperCase(text) == [k \in 1 .. Len(text) |-> ToUpperChar(text[k])]
ToLowerCase(text) == [k \in 1 .. Len(text) |-> ToLowerChar(text[k])]

Algorithms == {"sha256", "sha3", "md5"}

\* Base64 texts decoding to 0, 1, maxSize - 1 and maxSize bytes.
DataTexts == {1, 2, Base64Chars(maxSize - 1), Base64Chars(maxSize)}

\* The hashes a client may declare for a file: its digest in lower case, the
\* same in upper case, and an unrelated one.
DeclaredHashes(algorithm, data) ==
    LET digest == IF algorithm = "sha3" THEN Sha3Digest(BufferFrom(data))
                  ELSE Sha256Digest(BufferFrom(data))
    IN {digest, ToUpperCase(digest), <<"0", "0">>}

MakeRequest(name, algorithm, hash, data) ==
    [name |-> name, description |-> "a file", size |-> BufferFrom(data).length,
     modified |-> "2020-01-01", algorithm |-> algorithm, hash |-> hash,
     data |-> data]

AllRequests ==
    {MakeRequest("", "sha256", Sha256Digest(BufferFrom(2)), 2)}
    \cup UNION {
           {MakeRequest("a.txt", algorithm, hash, data) :
              hash \in DeclaredHashes(algorithm, data)} :
           <<algorithm, data>> \in Algorithms \X DataTexts}

\* A description long enough for the payload to take several transactions.
LongDescription == "a file, described at a length that one transaction cannot hold"

\* A well-formed request of a small file, with the long description.
GoodRequests ==
    {[MakeRequest("a.txt", "sha256", Sha256Digest(BufferFrom(2)), 2)
        EXCEPT !.description = LongDescription]}

\* ---------------------------------------------------------------- state
VARIABLES
    config,         \* the configuration: the IPFS provider text
    pc,             \* where each call of ipfsStore stands
    request,        \* the call's request
    ipfsHash,       \* let ipfsHash
    currentState,   \* let currentState
    bundles,        \* const bundles
    i,              \* the index of the transaction cache loop
    result,         \* the response the call returned
    trace,          \* the checks and calls the call has made, in order
    allocated,      \* the (seed, addressIndex) the call persisted
    stateTable,     \* the state table's item "default"
    ipfsFiles,      \* the content store
    ledger,         \* the bundles attached to the ledger
    bundleCache,    \* the bundle cache table
    txCache         \* the transaction cache table

locals == <<request, ipfsHash, currentState, bundles, i>>
stores == <<stateTable, ipfsFiles, ledger, bundleCache, txCache>>
vars == <<config, pc, request, ipfsHash, currentState, bundles, i, result,
          trace, allocated, stateTable, ipfsFiles, ledger, bundleCache,
          txCache>>

Init ==
    /\ config \in [ipfsProvider : Providers]
    /\ pc = [c \in AllCalls |-> "idle"]
    /\ request = [c \in AllCalls |-> Null]
    /\ ipfsHash = [c \in AllCalls |-> Null]
    /\ currentState = [c \in AllCalls |-> Null]
    /\ bundles = [c \in AllCalls |-> <<>>]
    /\ i = [c \in AllCalls |-> 0]
    /\ result = [c \in AllCalls |-> Null]
    /\ trace = [c \in AllCalls |-> <<>>]
    /\ allocated = [c \in AllCalls |-> Null]
    /\ stateTable = Null
    /\ ipfsFiles = {}
    /\ ledger = {}
    /\ bundleCache = {}
    /\ txCache = {}

\* The call's locals go out of scope when it returns.
DropLocals(c) ==
    /\ request' = [request EXCEPT ![c] = Null]
    /\ ipfsHash' = [ipfsHash EXCEPT ![c] = Null]
    /\ currentState' = [currentState EXCEPT ![c] = Null]
    /\ bundles' = [bundles EXCEPT ![c] = <<>>]
    /\ i' = [i EXCEPT ![c] = 0]

\* The error leaves ipfsStore: the promise rejects and no response is made.
ThrowEscapes(c, message) ==
    /\ pc' = [pc EXCEPT ![c] = "rejected"]
    /\ UNCHANGED result
    /\ DropLocals(c)

\* catch (err) { return { success: false, message: err.toString() }; }
Throw(c, message) ==
    /\ pc' = [pc EXCEPT ![c] = "done"]
    /\ result' = [result EXCEPT ![c] = [success |-> FALSE, message |-> message]]
    /\ DropLocals(c)

Log(c, events) == trace' = [trace EXCEPT ![c] = @ \o events]

\* The texts of the errors.
MsgInvalid == "Error: The parameter 'name' has an invalid value."
MsgNode == "Error: The node is not available."
MsgTooLarge ==
    "Error: The file is too large for this demonstration, it should be less than 0.5 Mb."
MsgEmpty == "Error: The file must be greater than 0 bytes in length."
MsgHash ==
    "Error: The hash for the file is incorrect '..' was sent but it has been calculated as '..'"
\* The same error when no hash was computed: hex is undefined.
MsgHashUndefined ==
    "Error: The hash for the file is incorrect '..' was sent but it has been calculated as 'undefined'"
MsgParts == "TypeError: Cannot read property 'length' of null"
MsgProvider ==
    "Error: The IPFS Provider is not formatted correctly, it should be in the format https://ipfs.mydomain.com:443/api/v0/"
MsgIpfs == "Error: the content store failed"
MsgStateGet == "Error: the state table could not be read"
MsgStateSet == "Error: the state table could not be written"
MsgPrepare == "Error: prepareTransfers failed"
MsgSend == "Error: sendTrytes failed"
MsgBundleCache == "Error: the bundle cache could not be written"
MsgTxCache == "Error: the transaction cache could not be written"

\* The synchronous checks between the node probe and ipfs.add, in the order
\* of the code: the events they log, and the text of the first that throws
\* ("" when none does).
CheckEvents(req, cfg) ==
    LET buffer == BufferFrom(req.data)
    IN  IF TooLarge(buffer) THEN <<"sizeCheck">>
        ELSE IF IsEmpty(buffer) THEN <<"sizeCheck", "emptyCheck">>
        ELSE IF HashDiffers(ComputeHex(req.algorithm, buffer), req.hash)
          THEN <<"sizeCheck", "emptyCheck", "hashCheck">>
        ELSE <<"sizeCheck", "emptyCheck", "hashCheck", "providerParse">>

CheckError(req, cfg) ==
    LET buffer == BufferFrom(req.data)
        parts == RegexExec(cfg.ipfsProvider)
    IN  IF TooLarge(buffer) THEN MsgTooLarge
        ELSE IF IsEmpty(buffer) THEN MsgEmpty
        ELSE IF HashDiffers(ComputeHex(req.algorithm, buffer), req.hash)
          THEN (IF ComputeHex(req.algorithm, buffer).defined
                  THEN MsgHash ELSE MsgHashUndefined)
        ELSE IF parts = Null THEN MsgParts
        ELSE IF Len(parts) # 5 THEN MsgProvider
        ELSE ""

\* --------------------------------------------------------------- actions
\* Lines 25-33: the field validations, then the node probe is sent.
Begin(c, req) ==
    /\ pc[c] = "idle"
    /\ IF FieldsValid(req)
         THEN /\ pc' = [pc EXCEPT ![c] = "isNodeAvailable"]
              /\ request' = [request EXCEPT ![c] = req]
              /\ Log(c, <<"validate", "isNodeAvailable">>)
              /\ UNCHANGED <<ipfsHash, currentState, bundles, i, result>>
         ELSE /\ Throw(c, MsgInvalid)
              /\ Log(c, <<"validate">>)
    /\ UNCHANGED <<config, allocated, stores>>

\* Line 33: IotaHelper.isNodeAvailable(provider, true) throws.
NodeUnavailable(c) ==
    /\ pc[c] = "isNodeAvailable"
    /\ Throw(c, MsgNode)
    /\ UNCHANGED <<config, trace, allocated, stores>>

\* Lines 35-87: the node answered; one of the checks throws.
CheckFails(c) ==
    /\ pc[c] = "isNodeAvailable"
    /\ CheckError(request[c], config) # ""
    /\ Throw(c, CheckError(request[c], config))
    /\ Log(c, CheckEvents(request[c], config))
    /\ UNCHANGED <<config, allocated, stores>>

\* Lines 35-91: the node answered, every check passes, ipfs.add is sent.
ChecksPass(c) ==
    /\ pc[c] = "isNodeAvailable"
    /\ CheckError(request[c], config) = ""
    /\ pc' = [pc EXCEPT ![c] = "ipfsAdd"]
    /\ Log(c, CheckEvents(request[c], config) \o <<"ipfs.add">>)
    /\ UNCHANGED <<config, locals, result, allocated, stores>>

\* The failure of the content store is swallowed and the call goes on to the
\* state table without a content id.
IpfsAddFailureIgnored(c) ==
    /\ pc[c] = "ipfsAdd"
    /\ pc' = [pc EXCEPT ![c] = "stateGet"]
    /\ Log(c, <<"state.get">>)
    /\ UNCHANGED <<config, locals, result, allocated, stores>>

\* Lines 91-96: the content store fails.
IpfsAddFails(c) ==
    /\ pc[c] = "ipfsAdd"
    /\ Throw(c, MsgIpfs)
    /\ UNCHANGED <<config, trace, allocated, stores>>

\* ipfs.add is not awaited: the call goes on to the state table before the
\* content store has answered, with no content id.
IpfsAddNotAwaited(c) ==
    /\ pc[c] = "ipfsAdd"
    /\ pc' = [pc EXCEPT ![c] = "stateGet"]
    /\ Log(c, <<"state.get">>)
    /\ UNCHANGED <<config, locals, result, allocated, stores>>

\* Lines 91-101: the content store holds the file; ipfsHash is the path of
\* the last file of the answer; stateService.get is sent.
IpfsAddDone(c) ==
    LET addResponse == IpfsAdd(BufferFrom(request[c].data))
    IN  /\ pc[c] = "ipfsAdd"
        /\ ipfsFiles' = ipfsFiles \cup {addResponse[k].path : k \in 1 .. Len(addResponse)}
        /\ ipfsHash' = [ipfsHash EXCEPT ![c] = addResponse[Len(addResponse)].path]
        /\ pc' = [pc EXCEPT ![c] = "stateGet"]
        /\ Log(c, <<"state.get">>)
        /\ UNCHANGED <<config, request, currentState, bundles, i, result,
                       allocated, stateTable, ledger, bundleCache, txCache>>

\* stateService.get(id): the item of the table, or undefined.
StateServiceGet(table) == table

\* stateService.set(item): the item replaces the one of the table.
StateServiceSet(table, item) == item

\* A cache service's set(item): the item replaces the one of the same id.
CacheSet(table, item) == {x \in table : x.id # item.id} \cup {item}

\* TrytesHelper.generateHash(): 81 random trytes; no two calls draw the same.
GenerateHash(c) == <<"seed", c>>

\* The increment forgotten: a stored state is written back as it was read.
NextStateKeepsIndex(got, c) ==
    IF got = Null
      THEN [seed |-> GenerateHash(c), id |-> "default", addressIndex |-> 0]
      ELSE got

\* Lines 102-110: a new state when none is stored, the next index otherwise.
NextState(got, c) ==
    IF got = Null
      THEN [seed |-> GenerateHash(c), id |-> "default", addressIndex |-> 0]
      ELSE [got EXCEPT !.addressIndex = @ + 1]

\* generateAddress(seed, index, 2)
GenerateAddress(seed, index) == <<"address", seed, index>>

\* Lines 120-128: the payload of the transfer.
TanglePayload(req, hash) ==
    [name |-> req.name, description |-> req.description, size |-> req.size,
     modified |-> req.modified, algorithm |-> req.algorithm, hash |-> req.hash,
     ipfs |-> hash]

\* TrytesHelper.toTrytes(payload): the payload as JSON, as trytes.
ToTrytes(payload) == <<"trytes", payload>>

\* prepareTransfers cuts the message into fragments of one transaction each:
\* the payload of a short description fits one transaction, that of the long
\* description takes MaxTxs.
TxCount(payload) == IF payload.description = LongDescription THEN MaxTxs ELSE 1

\* The transactions sendTrytes answers with for call c: n of one bundle.
SentBundles(c, n, address, message) ==
    [k \in 1 .. n |->
       [hash |-> <<"tx", c, k>>, bundle |-> <<"bundle", c>>,
        address |-> address, currentIndex |-> k - 1, lastIndex |-> n - 1,
        signatureMessageFragment |-> message]]

\* bundles.map(b => b.hash)
TxHashes(b) == [k \in 1 .. Len(b) |-> b[k].hash]

\* asTransactionTrytes(bundles)
AsTransactionTrytes(b) == [k \in 1 .. Len(b) |-> <<"trytes", b[k]>>]

\* The response naming the last transaction of the bundle, not the first.
SuccessResponseLast(txHashes, payload) ==
    [success |-> TRUE, message |-> "OK",
     transactionHash |-> txHashes[Len(txHashes)], ipfs |-> payload.ipfs]

\* Lines 159-164: the response of a store that succeeded.
SuccessResponse(txHashes, payload) ==
    [success |-> TRUE, message |-> "OK", transactionHash |-> txHashes[1],
     ipfs |-> payload.ipfs]

\* Line 101: the state table cannot be read.
StateGetFails(c) ==
    /\ pc[c] = "stateGet"
    /\ Throw(c, MsgStateGet)
    /\ UNCHANGED <<config, trace, allocated, stores>>

\* Lines 101-112: the state is read and advanced; stateService.set is sent.
StateGetDone(c) ==
    /\ pc[c] = "stateGet"
    /\ currentState' = [currentState EXCEPT
                          ![c] = NextState(StateServiceGet(stateTable), c)]
    /\ pc' = [pc EXCEPT ![c] = "stateSet"]
    /\ Log(c, <<"state.set">>)
    /\ UNCHANGED <<config, request, ipfsHash, bundles, i, result, allocated,
                   stores>>

\* The failure of stateService.set is swallowed: the call derives its address
\* and goes on although its state was not stored.
StateSetFailureIgnored(c) ==
    /\ pc[c] = "stateSet"
    /\ pc' = [pc EXCEPT ![c] = "prepareTransfers"]
    /\ Log(c, <<"generateAddress", "prepareTransfers">>)
    /\ UNCHANGED <<config, locals, result, allocated, stores>>

\* Line 112: the state table cannot be written.
StateSetFails(c) ==
    /\ pc[c] = "stateSet"
    /\ Throw(c, MsgStateSet)
    /\ UNCHANGED <<config, trace, allocated, stores>>

\* Lines 112-131: the state is stored; the address is derived and
\* prepareTransfers is sent.
StateSetDone(c) ==
    /\ pc[c] = "stateSet"
    /\ stateTable' = StateServiceSet(stateTable, currentState[c])
    /\ allocated' = [allocated EXCEPT
                       ![c] = [seed |-> currentState[c].seed,
                               addressIndex |-> currentState[c].addressIndex]]
    /\ pc' = [pc EXCEPT ![c] = "prepareTransfers"]
    /\ Log(c, <<"generateAddress", "prepareTransfers">>)
    /\ UNCHANGED <<config, locals, result, ipfsFiles, ledger, bundleCache,
                   txCache>>

\* Lines 130-139: prepareTransfers fails.
PrepareFails(c) ==
    /\ pc[c] = "prepareTransfers"
    /\ Throw(c, MsgPrepare)
    /\ UNCHANGED <<config, trace, allocated, stores>>

\* Lines 130-143: the trytes are prepared; sendTrytes is sent.
PrepareDone(c) ==
    /\ pc[c] = "prepareTransfers"
    /\ pc' = [pc EXCEPT ![c] = "sendTrytes"]
    /\ Log(c, <<"sendTrytes">>)
    /\ UNCHANGED <<config, locals, result, allocated, stores>>

\* Line 143: sendTrytes fails.
SendFails(c) ==
    /\ pc[c] = "sendTrytes"
    /\ Throw(c, MsgSend)
    /\ UNCHANGED <<config, trace, allocated, stores>>

\* Lines 143-149: the bundle of the prepared transactions is attached to the
\* ledger; bundleCacheService.set is sent.
SendDone(c) ==
    LET address == GenerateAddress(currentState[c].seed,
                                   currentState[c].addressIndex)
        payload == TanglePayload(request[c], ipfsHash[c])
        sent == SentBundles(c, TxCount(payload), address, ToTrytes(payload))
    IN  /\ pc[c] = "sendTrytes"
        /\ ledger' = ledger \cup {[call |-> c, transactions |-> sent]}
        /\ bundles' = [bundles EXCEPT ![c] = sent]
        /\ pc' = [pc EXCEPT ![c] = "bundleCacheSet"]
        /\ Log(c, <<"bundleCache.set">>)
        /\ UNCHANGED <<config, request, ipfsHash, currentState, i, result,
                       allocated, stateTable, ipfsFiles, bundleCache, txCache>>

\* Line 149: the bundle cache cannot be written.
BundleCacheFails(c) ==
    /\ pc[c] = "bundleCacheSet"
    /\ Throw(c, MsgBundleCache)
    /\ UNCHANGED <<config, trace, allocated, stores>>

\* Lines 149-156: the bundle is cached; the loop sends its first
\* transactionCacheService.set.
BundleCacheDone(c) ==
    /\ pc[c] = "bundleCacheSet"
    /\ bundleCache' = CacheSet(bundleCache,
                               [id |-> bundles[c][1].bundle,
                                transactionHashes |-> TxHashes(bundles[c])])
    /\ i' = [i EXCEPT ![c] = 0]
    /\ pc' = [pc EXCEPT ![c] = "txCacheSet"]
    /\ Log(c, <<"txCache.set">>)
    /\ UNCHANGED <<config, request, ipfsHash, currentState, bundles, result,
                   allocated, stateTable, ipfsFiles, ledger, txCache>>

\* Line 156: the transaction cache cannot be written.
TxCacheFails(c) ==
    /\ pc[c] = "txCacheSet"
    /\ Throw(c, MsgTxCache)
    /\ UNCHANGED <<config, trace, allocated, stateTable, ipfsFiles, ledger,
                   bundleCache, txCache>>

\* The loop index left out: every turn of the loop writes the first
\* transaction.
TxCacheItemFirst(c) ==
    [id |-> bundles[c][1].hash,
     trytes |-> AsTransactionTrytes(bundles[c])[1]]

\* The item the loop writes at index i.
TxCacheItem(c) ==
    [id |-> bundles[c][i[c] + 1].hash,
     trytes |-> AsTransactionTrytes(bundles[c])[i[c] + 1]]

\* Lines 155-157: a transaction is cached and the loop goes on.
TxCacheDone(c) ==
    /\ pc[c] = "txCacheSet"
    /\ i[c] + 1 < Len(bundles[c])
    /\ txCache' = CacheSet(txCache, TxCacheItem(c))
    /\ i' = [i EXCEPT ![c] = @ + 1]
    /\ Log(c, <<"txCache.set">>)
    /\ UNCHANGED <<config, pc, request, ipfsHash, currentState, bundles,
                   result, allocated, stateTable, ipfsFiles, ledger,
                   bundleCache>>

\* Lines 155-164: the last transaction is cached and the call returns.
Return(c) ==
    /\ pc[c] = "txCacheSet"
    /\ i[c] + 1 >= Len(bundles[c])
    /\ txCache' = CacheSet(txCache, TxCacheItem(c))
    /\ pc' = [pc EXCEPT ![c] = "done"]
    /\ result' = [result EXCEPT
                    ![c] = SuccessResponse(TxHashes(bundles[c]),
                                           TanglePayload(request[c], ipfsHash[c]))]
    /\ DropLocals(c)
    /\ UNCHANGED <<config, trace, allocated, stateTable, ipfsFiles, ledger,
                   bundleCache>>

\* One step of call c after it began.
Step(c) ==
    \/ NodeUnavailable(c) \/ CheckFails(c) \/ ChecksPass(c)
    \/ IpfsAddFails(c) \/ IpfsAddDone(c)
    \/ StateGetFails(c) \/ StateGetDone(c)
    \/ StateSetFails(c) \/ StateSetDone(c)
    \/ PrepareFails(c) \/ PrepareDone(c)
    \/ SendFails(c) \/ SendDone(c)
    \/ BundleCacheFails(c) \/ BundleCacheDone(c)
    \/ TxCacheFails(c) \/ TxCacheDone(c) \/ Return(c)

\* The requests call c may be given under Spec.
RequestsOf(c) == IF c = 1 THEN AllRequests ELSE GoodRequests

Next ==
    \E c \in Calls : (\E req \in RequestsOf(c) : Begin(c, req)) \/ Step(c)

Spec == Init /\ [][Next]_vars

NextRace ==
    \E c \in RaceCalls : (\E req \in GoodRequests : Begin(c, req)) \/ Step(c)

SpecRace == Init /\ [][NextRace]_vars

\* The calls run one after another: a call begins when no other is running.
NoneRunning == \A c \in AllCalls : pc[c] \in {"idle", "done"}

NextSeq ==
    \E c \in RaceCalls :
        (NoneRunning /\ \E req \in GoodRequests : Begin(c, req)) \/ Step(c)

SpecSeq == Init /\ [][NextSeq]_vars

\* The steps of call c that wait for neither the content store nor the
\* ledger: the answers of the node probe, of the state table and of the
\* caches, and the local prepareTransfers.
LocalStep(c) ==
    \/ NodeUnavailable(c) \/ CheckFails(c) \/ ChecksPass(c)
    \/ StateGetFails(c) \/ StateGetDone(c)
    \/ StateSetFails(c) \/ StateSetDone(c)
    \/ PrepareFails(c) \/ PrepareDone(c)
    \/ BundleCacheFails(c) \/ BundleCacheDone(c)
    \/ TxCacheFails(c) \/ TxCacheDone(c) \/ Return(c)

\* Spec with every answer but those of ipfs.add and sendTrytes sure to come:
\* the code sets no timeout on either call, so nothing makes their answers
\* come.
SpecLive == Spec /\ \A c \in Calls : WF_vars(LocalStep(c))

\* ================================================================ claims
Events(t) == {t[k] : k \in DOMAIN t}

\* The calls that reach beyond the process: the probe of the ledger node, the
\* content store, the state table, the ledger and the caches.
NetworkEvents ==
    {"isNodeAvailable", "ipfs.add", "state.get", "state.set", "sendTrytes",
     "bundleCache.set", "txCache.set"}

\* The calls that change something outside the call.
EffectEvents ==
    {"ipfs.add", "state.set", "generateAddress", "prepareTransfers",
     "sendTrytes", "bundleCache.set", "txCache.set"}

Failed(res, message) == res = [success |-> FALSE, message |-> message]

Allocating == {c \in AllCalls : allocated[c] # Null}

\* C1: however the calls interleave, no two calls persist the same
\* addressIndex with the same seed, and the indices the calls have used are
\* as many consecutive values as there are calls that allocated: 0 .. N-1.
C1_DistinctConsecutiveIndices ==
    /\ \A a, b \in Allocating : a # b => allocated[a] # allocated[b]
    /\ {allocated[c].addressIndex : c \in Allocating}
         = 0 .. (Cardinality(Allocating) - 1)

\* C2: the stored addressIndex never decreases: no stateService.set stores an
\* index lower than the one stored before it.
C2_IndexNeverDecreases ==
    [][(stateTable # Null /\ stateTable' # Null)
         => stateTable'.addressIndex >= stateTable.addressIndex]_vars

\* The recomputed hash of the request's decoded data is not its declared hash.
Mismatch(req) ==
    LET hex == ComputeHex(req.algorithm, BufferFrom(req.data))
    IN  (~hex.defined) \/ hex.value # req.hash

\* C3: a call that evaluates the hash check with a recomputed hash that
\* differs from request.hash returns success=false with the "calculated as"
\* message in that step, which changes no store (content store, state table,
\* ledger, caches); the call has allocated nothing and has sent no call that
\* changes anything.
C3_HashMismatchStops ==
    [][\A c \in AllCalls :
         (/\ pc[c] = "isNodeAvailable"
          /\ "hashCheck" \in Events(trace'[c])
          /\ Mismatch(request[c]))
         => /\ pc'[c] = "done"
            /\ (Failed(result'[c], MsgHash)
                  \/ Failed(result'[c], MsgHashUndefined))
            /\ UNCHANGED stores
            /\ allocated'[c] = Null
            /\ Events(trace'[c]) \cap EffectEvents = {}]_vars

C3_Witness ==
    \E c \in AllCalls :
        /\ pc[c] = "done"
        /\ Failed(result[c], MsgHash)
        /\ trace[c][Len(trace[c])] = "hashCheck"

\* C4: a call whose decoded buffer is empty fails with the empty-file error,
\* one whose decoded buffer has maxSize bytes or more fails with the
\* file-too-large error; the step changes no store, and the call has
\* allocated nothing and has sent no call that changes anything.
C4_SizeChecks ==
    [][\A c \in AllCalls :
         (pc[c] = "isNodeAvailable" /\ "sizeCheck" \in Events(trace'[c]))
         => LET length == BufferFrom(request[c].data).length
            IN  /\ length = 0 => Failed(result'[c], MsgEmpty)
                /\ length >= maxSize => Failed(result'[c], MsgTooLarge)
                /\ (length = 0 \/ length >= maxSize)
                     => /\ pc'[c] = "done"
                        /\ UNCHANGED stores
                        /\ allocated'[c] = Null
                        /\ Events(trace'[c]) \cap EffectEvents = {}]_vars

C4_Witness ==
    \E c \in AllCalls :
        /\ pc[c] = "done"
        /\ Failed(result[c], MsgTooLarge)
        /\ trace[c][Len(trace[c])] = "sizeCheck"

\* C5: in every call, the file-too-large and the empty-file check come
\* before the first call to the ledger node or the content store.
C5_ChecksBeforeNetwork ==
    \A c \in AllCalls :
        \A k \in DOMAIN trace[c] :
            trace[c][k] \in {"isNodeAvailable", "ipfs.add", "sendTrytes"}
            => \E j \in 1 .. (k - 1) : trace[c][j] = "sizeCheck"

\* C6: a call whose ipfs.add fails (it gets no content id) returns
\* success=false; the step changes neither the state table, the ledger nor
\* the caches, and the call has created no seed, allocated no index, and sent
\* nothing to the state table, the ledger or the caches.
C6_ContentStoreFailure ==
    [][\A c \in AllCalls :
         (pc[c] = "ipfsAdd" /\ pc'[c] # "ipfsAdd" /\ ipfsHash'[c] = Null)
         => /\ pc'[c] = "done"
            /\ result'[c] # Null
            /\ result'[c].success = FALSE
            /\ UNCHANGED <<stateTable, ledger, bundleCache, txCache>>
            /\ currentState[c] = Null
            /\ allocated'[c] = Null
            /\ Events(trace'[c])
                 \cap {"state.get", "state.set", "generateAddress",
                       "prepareTransfers", "sendTrytes", "bundleCache.set",
                       "txCache.set"} = {}]_vars

C6_Witness ==
    \E c \in AllCalls :
        /\ pc[c] = "done"
        /\ Failed(result[c], MsgIpfs)
        /\ allocated[c] = Null

\* C7: a call that persisted its allocation and then failed returned
\* success=false, the stored addressIndex is at or above the index it
\* allocated, and no other call was issued the same seed and index.
C7_AllocationConsumed ==
    \A c \in AllCalls :
        (allocated[c] # Null /\ pc[c] = "done" /\ result[c].message # "OK")
        => /\ result[c].success = FALSE
           /\ stateTable # Null
           /\ stateTable.addressIndex >= allocated[c].addressIndex
           /\ \A d \in AllCalls \ {c} : allocated[d] # allocated[c]

ErrorMessages ==
    {MsgInvalid, MsgNode, MsgTooLarge, MsgEmpty, MsgHash, MsgHashUndefined,
     MsgParts,
     MsgProvider, MsgIpfs, MsgStateGet, MsgStateSet, MsgPrepare, MsgSend,
     MsgBundleCache, MsgTxCache}

\* C8: no call ends in a rejection: a call that ended has returned a result
\* whose success is true or false, a failure at any step is a result with
\* success=false and the error's message, and success=true comes with "OK".
C8_NoExceptionEscapes ==
    \A c \in AllCalls :
        /\ pc[c] # "rejected"
        /\ pc[c] = "done"
             => /\ result[c] # Null
                /\ result[c].success \in BOOLEAN
                /\ result[c].success = FALSE <=> result[c].message \in ErrorMessages
                /\ result[c].success = TRUE <=> result[c].message = "OK"

C8_Witness ==
    \E c \in AllCalls : pc[c] = "done" /\ Failed(result[c], MsgParts)

\* C9: a call that evaluates the hash check with a declared hash equal to the
\* recomputed digest up to letter case passes the check.
C9_CaseInsensitiveCompare ==
    [][\A c \in AllCalls :
         (/\ pc[c] = "isNodeAvailable"
          /\ "hashCheck" \in Events(trace'[c])
          /\ LET hex == ComputeHex(request[c].algorithm,
                                   BufferFrom(request[c].data))
             IN  hex.defined
                 /\ ToLowerCase(hex.value) = ToLowerCase(request[c].hash))
         => /\ ~Failed(result'[c], MsgHash)
            /\ "providerParse" \in Events(trace'[c])]_vars

\* C10: a call that returns success returns as transactionHash the hash of
\* the first transaction of the bundle it attached to the ledger, and as ipfs
\* the content id the content store gave for the bytes of its request.
C10_SuccessResponse ==
    [][\A c \in AllCalls :
         (pc[c] # "done" /\ pc'[c] = "done" /\ result'[c].success = TRUE)
         => /\ \E b \in ledger :
                 /\ b.call = c
                 /\ b.transactions = bundles[c]
                 /\ result'[c].transactionHash = b.transactions[1].hash
            /\ result'[c].ipfs = Cid(BufferFrom(request[c].data))
            /\ result'[c].ipfs \in ipfsFiles]_vars

C10_Witness ==
    \E c \in AllCalls :
        /\ pc[c] = "done"
        /\ result[c].success = TRUE
        /\ \E b \in ledger : b.call = c /\ Len(b.transactions) > 1

\* C11: every call that began eventually returns a result, also when the
\* content store or the ledger never answers.
C11_EveryCallReturns ==
    \A c \in Calls : (pc[c] # "idle") ~> (pc[c] = "done")

\* Event a comes before position k of the trace t.
Before(t, a, k) == \E j \in 1 .. (k - 1) : t[j] = a

\* C12: within a call the steps come in the order validate (fields, size,
\* hash), content-store write, address allocation, ledger submission, and a
\* step begins only when the one before it has succeeded: ipfs.add is sent
\* after the validations and checks, the state table is read after the
\* content store gave the content id of a stored file, and the ledger is
\* sent to after the allocation was stored.
C12_StepOrder ==
    \A c \in AllCalls :
        /\ \A k \in DOMAIN trace[c] :
             /\ trace[c][k] = "ipfs.add"
                  => /\ Before(trace[c], "validate", k)
                     /\ Before(trace[c], "sizeCheck", k)
                     /\ Before(trace[c], "emptyCheck", k)
                     /\ Before(trace[c], "hashCheck", k)
             /\ trace[c][k] = "state.get" => Before(trace[c], "ipfs.add", k)
             /\ trace[c][k] = "state.set" => Before(trace[c], "state.get", k)
             /\ trace[c][k] \in {"generateAddress", "prepareTransfers", "sendTrytes"}
                  => Before(trace[c], "state.set", k)
        /\ pc[c] \in {"stateGet", "stateSet", "prepareTransfers", "sendTrytes",
                      "bundleCacheSet", "txCacheSet"}
             => ipfsHash[c] # Null /\ ipfsHash[c] \in ipfsFiles
        /\ "state.get" \in Events(trace[c]) => ipfsFiles # {}
        /\ "sendTrytes" \in Events(trace[c])
             => allocated[c] # Null /\ stateTable # Null
        /\ (\E b \in ledger : b.call = c)
             => "sendTrytes" \in Events(trace[c]) /\ allocated[c] # Null

C12_Witness ==
    \E c \in AllCalls :
        /\ pc[c] = "bundleCacheSet"
        /\ \E b \in ledger : b.call = c
        /\ allocated[c] # Null
        /\ ipfsHash[c] \in ipfsFiles

\* C13: a call derives its address and submits to the ledger only after the
\* state it computed was stored: the address of every bundle on the ledger
\* is derived from the seed and index its call stored, and a call whose
\* stateService.set fails returns that failure, having derived no address
\* and submitted nothing.
C13_PersistBeforeUse ==
    /\ \A c \in AllCalls :
         /\ Events(trace[c]) \cap {"generateAddress", "prepareTransfers", "sendTrytes"} # {}
              => allocated[c] # Null
         /\ pc[c] \in {"prepareTransfers", "sendTrytes", "bundleCacheSet",
                       "txCacheSet"}
              => allocated[c] = [seed |-> currentState[c].seed,
                                 addressIndex |-> currentState[c].addressIndex]
         /\ (pc[c] = "done" /\ Failed(result[c], MsgStateSet))
              => /\ allocated[c] = Null
                 /\ Events(trace[c])
                      \cap {"generateAddress", "prepareTransfers", "sendTrytes"} = {}
                 /\ \A b \in ledger : b.call # c
    /\ \A b \in ledger :
         /\ allocated[b.call] # Null
         /\ \A k \in DOMAIN b.transactions :
              b.transactions[k].address
                = GenerateAddress(allocated[b.call].seed,
                                  allocated[b.call].addressIndex)

C13_Witness ==
    /\ \E c \in AllCalls : pc[c] = "done" /\ Failed(result[c], MsgStateSet)
    /\ \E b \in ledger : allocated[b.call] # Null

\* C14: with the calls run one after another, the allocation of a call that
\* finds no state stores a state with a seed and addressIndex 0, the
\* allocation of a call that finds one stores the same seed with the
\* addressIndex one higher, and the k-th allocation uses index k - 1.
C14_SequentialAllocation ==
    [][\A c \in AllCalls :
         (allocated[c] = Null /\ allocated'[c] # Null)
         => /\ stateTable' # Null
            /\ stateTable'.id = "default"
            /\ allocated'[c] = [seed |-> stateTable'.seed,
                                addressIndex |-> stateTable'.addressIndex]
            /\ IF stateTable = Null
                 THEN /\ stateTable'.addressIndex = 0
                      /\ Allocating = {}
                 ELSE /\ stateTable'.seed = stateTable.seed
                      /\ stateTable'.addressIndex = stateTable.addressIndex + 1
            /\ allocated'[c].addressIndex = Cardinality(Allocating)]_vars

C14_Witness ==
    /\ stateTable # Null
    /\ stateTable.addressIndex = 2
    /\ Cardinality(Allocating) = 3
    /\ \A c \in Allocating : allocated[c].seed = stateTable.seed

\* C15: when a call has returned success, the bundle cache holds the group of
\* its bundle, keyed by the bundle id, with the hashes of all its
\* transactions in the order of the submission, and the transaction cache
\* holds one entry for every transaction of the bundle.
C15_CachedBeforeSuccess ==
    \A c \in AllCalls :
        (pc[c] = "done" /\ result[c].success = TRUE)
        => \E b \in ledger :
             /\ b.call = c
             /\ [id |-> b.transactions[1].bundle,
                 transactionHashes |-> [k \in DOMAIN b.transactions |->
                                          b.transactions[k].hash]]
                  \in bundleCache
             /\ \A k \in DOMAIN b.transactions :
                  \E t \in txCache :
                      /\ t.id = b.transactions[k].hash
                      /\ t.trytes = <<"trytes", b.transactions[k]>>
             /\ Len(trace[c]) >= 1 + Len(b.transactions)
             /\ \A k \in 1 .. Len(b.transactions) :
                  trace[c][Len(trace[c]) - k + 1] = "txCache.set"
             /\ trace[c][Len(trace[c]) - Len(b.transactions)] = "bundleCache.set"

C15_Witness ==
    \E c \in AllCalls :
        /\ pc[c] = "done"
        /\ result[c].success = TRUE
        /\ \E b \in ledger :
             /\ b.call = c
             /\ Len(b.transactions) = MaxTxs
             /\ \A k \in DOMAIN b.transactions :
                  \E t \in txCache : t.id = b.transactions[k].hash

\* C16: the seed of the stored state "default", once stored, is never
\* replaced by another seed, however the calls interleave.
C16_SeedNeverReplaced ==
    [][(stateTable # Null /\ stateTable' # Null)
         => stateTable'.seed = stateTable.seed]_vars

\* C17: a call whose request names an algorithm other than sha256 and sha3
\* never gets past the hash check: it sends nothing to the content store,
\* the state table or the ledger, every result it returns has success=false
\* and leaves the stores as they were, and when it evaluates the hash check
\* it fails there with the "calculated as 'undefined'" error.
C17_UnknownAlgorithmRejected ==
    [][\A c \in AllCalls :
         (request[c] # Null /\ request[c].algorithm \notin {"sha256", "sha3"})
         => /\ pc'[c] \in {"isNodeAvailable", "done"}
            /\ Events(trace'[c]) \cap EffectEvents = {}
            /\ allocated'[c] = Null
            /\ pc'[c] = "done"
                 => /\ result'[c].success = FALSE
                    /\ UNCHANGED stores
            /\ "hashCheck" \in Events(trace'[c])
                 => /\ pc'[c] = "done"
                    /\ Failed(result'[c], MsgHashUndefined)]_vars

C17_Witness ==
    \E c \in AllCalls :
        /\ pc[c] = "done"
        /\ Failed(result[c], MsgHashUndefined)
        /\ trace[c][Len(trace[c])] = "hashCheck"
        /\ Events(trace[c]) \cap EffectEvents = {}

====
